---- MODULE Spec2Model ----
(***************************************************************************)
(* Model of app.py: the Black-Scholes option pricing calculator.          *)
(*                                                                         *)
(* A float is modelled as a record [k, v]:                                 *)
(*   k = "fin"  a finite number, v its value in units of 1/Scale           *)
(*   k = "inf"  an infinity, v = 1 or -1 its sign                          *)
(*   k = "nan"  not-a-number                                               *)
(* The arithmetic on finite values is fixed-point, rounded to the nearest  *)
(* unit; on infinities and NaN it follows IEEE 754 as numpy does (numpy    *)
(* warns and continues where Python's own operators would raise).         *)
(***************************************************************************)
EXTENDS Integers, Sequences, FiniteSets

\* ------------------------------------------------------------------------
\* Bounds of the model
\* ------------------------------------------------------------------------

\* Longest Close series the market-data provider returns.
MaxLen == 3

\* Fixed-point resolution of the finite floats: 1/Scale.
Scale == 10 ^ 3

\* ------------------------------------------------------------------------
\* Constants of the program
\* ------------------------------------------------------------------------

\* timedelta(days=252): the trailing window of the volatility history.
VolWindowDays == 252

\* np.sqrt(252): the annualisation factor.
TradingDays == 252

\* days_to_expiration / 365.
DaysPerYear == 365

\* timedelta(days=180): the window of the chart.
ChartWindowDays == 180

\* ------------------------------------------------------------------------
\* Floats
\* ------------------------------------------------------------------------

Fin(n) == [k |-> "fin", v |-> n]

NaN == [k |-> "nan", v |-> 0]

PInf == [k |-> "inf", v |-> 1]

NInf == [k |-> "inf", v |-> -1]

Inf(s) == [k |-> "inf", v |-> s]

\* A Python int or float n as a float.
Num(n) == Fin(n * Scale)

IsNaN(x) == x.k = "nan"

IsFinite(x) == x.k = "fin"

Sgn(n) == IF n > 0 THEN 1 ELSE IF n < 0 THEN -1 ELSE 0

\* n / d rounded to the nearest integer, d # 0.
Rnd(n, d) ==
    IF d > 0 THEN (2 * n + d) \div (2 * d) ELSE (2 * (-n) - d) \div (2 * (-d))

FNeg(x) == IF x.k = "nan" THEN NaN ELSE [k |-> x.k, v |-> -x.v]

FAdd(a, b) ==
    IF a.k = "nan" \/ b.k = "nan" THEN NaN
    ELSE IF a.k = "inf" /\ b.k = "inf" THEN (IF a.v = b.v THEN a ELSE NaN)
    ELSE IF a.k = "inf" THEN a
    ELSE IF b.k = "inf" THEN b
    ELSE Fin(a.v + b.v)

FSub(a, b) == FAdd(a, FNeg(b))

FMul(a, b) ==
    IF a.k = "nan" \/ b.k = "nan" THEN NaN
    ELSE IF a.k = "inf" \/ b.k = "inf"
         THEN (IF a.v = 0 \/ b.v = 0 THEN NaN ELSE Inf(Sgn(a.v) * Sgn(b.v)))
    ELSE Fin(Rnd(a.v * b.v, Scale))

\* numpy division: x / 0 is an infinity, 0 / 0 is NaN, nothing is raised.
FDiv(a, b) ==
    IF a.k = "nan" \/ b.k = "nan" THEN NaN
    ELSE IF a.k = "inf" /\ b.k = "inf" THEN NaN
    ELSE IF a.k = "inf" THEN Inf(a.v * (IF b.v < 0 THEN -1 ELSE 1))
    ELSE IF b.k = "inf" THEN Fin(0)
    ELSE IF b.v = 0 THEN (IF a.v = 0 THEN NaN ELSE Inf(Sgn(a.v)))
    ELSE Fin(Rnd(a.v * Scale, b.v))

RECURSIVE SqrtSearch(_, _, _)
\* The largest k in lo..hi with k * k <= n.
SqrtSearch(n, lo, hi) ==
    IF lo >= hi THEN lo
    ELSE LET mid == (lo + hi + 1) \div 2
         IN  IF mid * mid <= n THEN SqrtSearch(n, mid, hi)
             ELSE SqrtSearch(n, lo, mid - 1)

ISqrt(n) == SqrtSearch(n, 0, IF n < 46340 THEN n ELSE 46340)

\* np.sqrt: NaN (and a warning) for a negative argument.
FSqrt(x) ==
    IF x.k = "nan" THEN NaN
    ELSE IF x.k = "inf" THEN (IF x.v > 0 THEN PInf ELSE NaN)
    ELSE IF x.v < 0 THEN NaN
    ELSE Fin(ISqrt(x.v * Scale))

\* ln 2 in units of 1/Scale.
Ln2 == Rnd(693147 * Scale, 1000000)

RECURSIVE LnFin(_)
\* ln(v / Scale) in units of 1/Scale, v > 0: halve or double v into
\* [3/4, 3/2), then 2 atanh y = 2 (y + y^3/3 + y^5/5), y = (v - 1)/(v + 1).
LnFin(v) ==
    IF 2 * v >= 3 * Scale THEN Ln2 + LnFin(Rnd(v, 2))
    ELSE IF 4 * v < 3 * Scale THEN LnFin(2 * v) - Ln2
    ELSE LET y  == Rnd((v - Scale) * Scale, v + Scale)
             y2 == Rnd(y * y, Scale)
             y3 == Rnd(y * y2, Scale)
             y5 == Rnd(y3 * y2, Scale)
         IN  Rnd(2 * (15 * y + 5 * y3 + 3 * y5), 15)

\* np.log: -inf for 0, NaN for a negative argument (warnings, no exception).
FLog(x) ==
    IF x.k = "nan" THEN NaN
    ELSE IF x.k = "inf" THEN (IF x.v > 0 THEN PInf ELSE NaN)
    ELSE IF x.v < 0 THEN NaN
    ELSE IF x.v = 0 THEN NInf
    ELSE Fin(LnFin(x.v))

RECURSIVE ExpSeries(_, _, _)
\* The terms x^n / n! from the n-th on, summed until a term rounds to 0.
ExpSeries(x, term, n) ==
    IF term = 0 THEN 0
    ELSE term + ExpSeries(x, Rnd(term * x, n * Scale), n + 1)

RECURSIVE ExpFin(_)
\* e^(x / Scale) in units of 1/Scale: the Taylor series for |x| <= 1,
\* e^x = (e^(x/2))^2 beyond.
ExpFin(x) ==
    IF x > Scale \/ x < -Scale
    THEN LET h == ExpFin(Rnd(x, 2)) IN Rnd(h * h, Scale)
    ELSE ExpSeries(x, Scale, 1)

\* np.exp.
FExp(x) ==
    IF x.k = "nan" THEN NaN
    ELSE IF x.k = "inf" THEN (IF x.v > 0 THEN PInf ELSE Fin(0))
    ELSE Fin(ExpFin(x.v))

\* The upper tail 1 - Phi(a) of the standard normal law at a = 0, 1/4,
\* 2/4, ... in thousandths; it is 0 from a = 7/2 on at this resolution.
TailTable == <<500, 401, 309, 227, 159, 106, 67, 40, 23, 12, 6, 3, 1, 1, 0>>

\* 1 - Phi(a / Scale) in units of 1/Scale, a >= 0: the table, interpolated.
UpperTail(a) ==
    LET i    == (4 * a) \div Scale
        frac == 4 * a - i * Scale
    IN  IF i + 2 > Len(TailTable) THEN 0
        ELSE LET lo == TailTable[i + 1]
                 hi == TailTable[i + 2]
             IN  Rnd((lo * Scale - (lo - hi) * frac) * Scale, 1000 * Scale)

\* si.norm.cdf(x, 0.0, 1.0): the tail of |x|, reflected for x > 0.
NormCdf(x) ==
    IF x.k = "nan" THEN NaN
    ELSE IF x.k = "inf" THEN (IF x.v > 0 THEN Fin(Scale) ELSE Fin(0))
    ELSE IF x.v > 0 THEN Fin(Scale - UpperTail(x.v))
    ELSE Fin(UpperTail(-x.v))

\* ------------------------------------------------------------------------
\* The inputs
\* ------------------------------------------------------------------------

\* Prices the provider quotes and strikes the user enters: whole numbers,
\* zero and a negative one included (nothing in the program excludes them).
Prices == {-1, 0, 1, 2}

\* The Close column of a history: the empty frame and every series of up
\* to MaxLen prices.
AllSeries == UNION {[1 .. n -> Prices] : n \in 0 .. MaxLen}

\* days_to_expiration: a month, a year, and 0, which the slider of the
\* form does not offer but the functions accept.
Days == {0, 30, 365}

\* risk_free_rate, in units of 1/Scale.
RiskFreeRates == {Fin(0), Fin(50)}

\* dividend_rate, in units of 1/Scale.
DividendRates == {Fin(0), Fin(20)}

\* option_type: the two sides and a value that is neither (the form
\* offers the two sides; the functions take any value).
OptionTypes == {"call", "put", "straddle"}

\* ------------------------------------------------------------------------
\* Volatility: lines 51-52
\* ------------------------------------------------------------------------

\* hist_data['Close'].shift(1): the series moved down one row, NaN on top.
Shift1(close) ==
    [i \in 1 .. Len(close) |-> IF i = 1 THEN NaN ELSE Num(close[i - 1])]

\* Fault injection: shift(-1) for shift(1), each close over the next one.
LogReturnsShiftUp(close) ==
    [i \in 1 .. Len(close) |->
        FLog(FDiv(Num(close[i]),
                  IF i = Len(close) THEN NaN ELSE Num(close[i + 1])))]

\* np.log(hist_data['Close'] / hist_data['Close'].shift(1)), row by row.
LogReturns(close) ==
    [i \in 1 .. Len(close) |-> FLog(FDiv(Num(close[i]), Shift1(close)[i]))]

RECURSIVE FSum(_)
FSum(s) == IF s = <<>> THEN Fin(0) ELSE FAdd(Head(s), FSum(Tail(s)))

\* The rows a pandas reduction keeps (skipna): those that are not NaN.
SkipNaN(values) == SelectSeq(values, LAMBDA x : ~IsNaN(x))

\* Series.std(): the standard deviation with divisor count - 1 over the
\* rows that are not NaN; NaN when fewer than two rows are left.
NanStd(values) ==
    LET valid == SkipNaN(values)
        count == Len(valid)
    IN  IF count <= 1 THEN NaN
        ELSE LET avg == FDiv(FSum(valid), Num(count))
                 sqr == [i \in 1 .. count |->
                            FMul(FSub(avg, valid[i]), FSub(avg, valid[i]))]
             IN  FSqrt(FDiv(FSum(sqr), Num(count - 1)))

\* returns.std() * np.sqrt(252) of the returns of a Close series.
Volatility(close) == FMul(NanStd(LogReturns(close)), FSqrt(Num(TradingDays)))

\* ------------------------------------------------------------------------
\* black_scholes: lines 16-29
\* ------------------------------------------------------------------------

Raise(e) == [raised |-> e, value |-> NaN]

Return(x) == [raised |-> "none", value |-> x]

\* Line 17.
D1(S, K, T, r, sigma, q) ==
    FDiv(FAdd(FLog(FDiv(S, K)),
              FMul(FAdd(FSub(r, q), FMul(Fin(Scale \div 2), FMul(sigma, sigma))), T)),
         FMul(sigma, FSqrt(T)))

\* Line 18.
D2(d1, sigma, T) == FSub(d1, FMul(sigma, FSqrt(T)))

\* Lines 21-22.
CallPrice(S, K, T, r, q, d1, d2) ==
    FSub(FMul(FMul(S, FExp(FMul(FNeg(q), T))), NormCdf(d1)),
         FMul(FMul(K, FExp(FMul(FNeg(r), T))), NormCdf(d2)))

\* Fault injection: the put with the call's arguments of the distribution.
PutPriceSameSign(S, K, T, r, q, d1, d2) ==
    FSub(FMul(FMul(K, FExp(FMul(FNeg(r), T))), NormCdf(d2)),
         FMul(FMul(S, FExp(FMul(FNeg(q), T))), NormCdf(d1)))

\* Lines 24-25.
PutPrice(S, K, T, r, q, d1, d2) ==
    FSub(FMul(FMul(K, FExp(FMul(FNeg(r), T))), NormCdf(FNeg(d2))),
         FMul(FMul(S, FExp(FMul(FNeg(q), T))), NormCdf(FNeg(d1))))

\* S_np: S is a numpy scalar (the close of the one-day history) and not a
\* Python float (stock.info['currentPrice']).  S / K is then numpy's
\* division; between Python numbers it raises ZeroDivisionError for K = 0.
black_scholes(S, K, T, r, sigma, q, option_type, S_np) ==
    IF ~S_np /\ K = Fin(0)
    THEN Raise("ZeroDivisionError: float division by zero")
    ELSE LET d1 == D1(S, K, T, r, sigma, q)
             d2 == D2(d1, sigma, T)
         IN  IF option_type = "call" THEN Return(CallPrice(S, K, T, r, q, d1, d2))
             ELSE IF option_type = "put" THEN Return(PutPrice(S, K, T, r, q, d1, d2))
             ELSE Raise("ValueError: option_type must be 'call' or 'put'")

\* Fault injection: the year counted in trading days.
TimeToExpirationTrading(days) == FDiv(Num(days), Num(TradingDays))

\* T = days_to_expiration / 365 (line 55).
TimeToExpiration(days) == FDiv(Num(days), Num(DaysPerYear))

\* ------------------------------------------------------------------------
\* The state: one request at a time through app_interface
\* ------------------------------------------------------------------------

VARIABLES
    pc,                 \* the line the request has reached
    strike_price,       \* the arguments of app_interface
    days_to_expiration,
    risk_free_rate,
    dividend_rate,
    option_type,
    current_price,      \* locals of calculate_option_price
    price_is_np,
    hist_data,
    returns,
    sigma,
    window,             \* timedelta(days=...) of the last get_stock_data
    bsArgs,             \* the arguments of the last call of black_scholes
    ret,                \* what calculate_option_price returned
    stock_chart,
    exc,                \* the exception raised, "none" if none
    output              \* what app_interface returned

vars == <<pc, strike_price, days_to_expiration, risk_free_rate, dividend_rate,
          option_type, current_price, price_is_np, hist_data, returns, sigma,
          window, bsArgs, ret, stock_chart, exc, output>>

\* A float not assigned yet.
NoVal == [k |-> "none", v |-> 0]

NoArgs == [S |-> NoVal, K |-> NoVal, T |-> NoVal, r |-> NoVal, sigma |-> NoVal,
           q |-> NoVal, option_type |-> "", S_np |-> FALSE]

NoRet == [option_price |-> NoVal, current_price |-> NoVal, sigma |-> NoVal]

NoChart == [kind |-> "None", candles |-> 0]

NoOutput == [kind |-> "none", message |-> "", option_price |-> NoVal,
             current_price |-> NoVal, volatility |-> NoVal, chart |-> NoChart]

Init ==
    /\ pc = "idle"
    /\ strike_price = NoVal
    /\ days_to_expiration = 0
    /\ risk_free_rate = NoVal
    /\ dividend_rate = NoVal
    /\ option_type = ""
    /\ current_price = NoVal
    /\ price_is_np = FALSE
    /\ hist_data = <<>>
    /\ returns = <<>>
    /\ sigma = NoVal
    /\ window = 0
    /\ bsArgs = NoArgs
    /\ ret = NoRet
    /\ stock_chart = NoChart
    /\ exc = "none"
    /\ output = NoOutput

\* ------------------------------------------------------------------------
\* The steps of a request
\* ------------------------------------------------------------------------

\* Gradio calls app_interface with the values of the form (line 77).
Request ==
    /\ pc = "idle"
    /\ \E k \in Prices, d \in Days, r \in RiskFreeRates, q \in DividendRates,
          ot \in OptionTypes :
          /\ strike_price' = Num(k)
          /\ days_to_expiration' = d
          /\ risk_free_rate' = r
          /\ dividend_rate' = q
          /\ option_type' = ot
    /\ pc' = "L33"
    /\ UNCHANGED <<current_price, price_is_np, hist_data, returns, sigma,
                   window, bsArgs, ret, stock_chart, exc, output>>

\* Lines 33-41: the current price, from stock.info or, when that has none,
\* the last close of the one-day history; anything raised on the way
\* (a failed request, .iloc[-1] of an empty frame) becomes a ValueError.
GetCurrentPrice ==
    /\ pc = "L33"
    /\ \/ \E p \in Prices, np \in BOOLEAN :
             /\ current_price' = Num(p)
             /\ price_is_np' = np
             /\ pc' = "L43"
             /\ exc' = exc
       \/ /\ exc' = "ValueError: Unable to fetch current price"
          /\ pc' = "L89"
          /\ UNCHANGED <<current_price, price_is_np>>
    /\ UNCHANGED <<strike_price, days_to_expiration, risk_free_rate,
                   dividend_rate, option_type, hist_data, returns, sigma,
                   window, bsArgs, ret, stock_chart, output>>

\* Lines 43-52: the history of the last 252 days, the empty-frame check,
\* the log returns and their annualised standard deviation.
EstimateVolatility ==
    /\ pc = "L43"
    /\ window' = VolWindowDays
    /\ \/ \E h \in AllSeries :
             IF h = <<>>
             THEN /\ exc' = "ValueError: No historical data available"
                  /\ pc' = "L89"
                  /\ UNCHANGED <<hist_data, returns, sigma>>
             ELSE /\ hist_data' = h
                  /\ returns' = LogReturns(h)
                  /\ sigma' = Volatility(h)
                  /\ pc' = "L54"
                  /\ exc' = exc
       \/ /\ exc' = "Exception: history request failed"
          /\ pc' = "L89"
          /\ UNCHANGED <<hist_data, returns, sigma>>
    /\ UNCHANGED <<strike_price, days_to_expiration, risk_free_rate,
                   dividend_rate, option_type, current_price, price_is_np,
                   bsArgs, ret, stock_chart, output>>

\* Lines 54-58: T, the call of black_scholes and the return of
\* calculate_option_price, whose locals end with it.
PriceOption ==
    /\ pc = "L54"
    /\ LET T   == TimeToExpiration(days_to_expiration)
           res == black_scholes(current_price, strike_price, T, risk_free_rate,
                                sigma, dividend_rate, option_type, price_is_np)
       IN  /\ bsArgs' = [S |-> current_price, K |-> strike_price, T |-> T,
                         r |-> risk_free_rate, sigma |-> sigma,
                         q |-> dividend_rate, option_type |-> option_type,
                         S_np |-> price_is_np]
           /\ IF res.raised = "none"
              THEN /\ ret' = [option_price |-> res.value,
                              current_price |-> current_price, sigma |-> sigma]
                   /\ pc' = "L80"
                   /\ exc' = exc
              ELSE /\ ret' = ret
                   /\ pc' = "L89"
                   /\ exc' = res.raised
    /\ current_price' = NoVal
    /\ price_is_np' = FALSE
    /\ hist_data' = <<>>
    /\ returns' = <<>>
    /\ sigma' = NoVal
    /\ UNCHANGED <<strike_price, days_to_expiration, risk_free_rate,
                   dividend_rate, option_type, window, stock_chart, output>>

\* Lines 80, 60-75: the chart of the last 180 days, None for an empty frame.
PlotStockData ==
    /\ pc = "L80"
    /\ window' = ChartWindowDays
    /\ \/ \E n \in 0 .. MaxLen :
             /\ stock_chart' = IF n = 0 THEN NoChart
                               ELSE [kind |-> "Figure", candles |-> n]
             /\ pc' = "L82"
             /\ exc' = exc
       \/ /\ exc' = "Exception: history request failed"
          /\ pc' = "L89"
          /\ stock_chart' = stock_chart
    /\ UNCHANGED <<strike_price, days_to_expiration, risk_free_rate,
                   dividend_rate, option_type, current_price, price_is_np,
                   hist_data, returns, sigma, bsArgs, ret, output>>

\* f"{x:.2f}": x in hundredths; nan and inf print as such.
Format2f(x) == IF x.k = "fin" THEN Fin(Rnd(x.v * 100, Scale)) ELSE x

\* f"{x:.2%}": x in hundredths of a percent.
FormatPct(x) == IF x.k = "fin" THEN Fin(Rnd(x.v * 10000, Scale)) ELSE x

\* Lines 82-88: the result text and the chart.
FormatResult ==
    /\ pc = "L82"
    /\ output' = [kind |-> "result", message |-> "",
                  option_price |-> Format2f(ret.option_price),
                  current_price |-> Format2f(ret.current_price),
                  volatility |-> FormatPct(ret.sigma),
                  chart |-> stock_chart]
    /\ pc' = "done"
    /\ UNCHANGED <<strike_price, days_to_expiration, risk_free_rate,
                   dividend_rate, option_type, current_price, price_is_np,
                   hist_data, returns, sigma, window, bsArgs, ret,
                   stock_chart, exc>>

\* Fault injection: the handler returns what the try block had computed.
HandleExceptionPartial ==
    /\ pc = "L89"
    /\ output' = [kind |-> "error", message |-> exc,
                  option_price |-> Format2f(ret.option_price),
                  current_price |-> Format2f(ret.current_price),
                  volatility |-> FormatPct(ret.sigma),
                  chart |-> stock_chart]
    /\ pc' = "done"
    /\ UNCHANGED <<strike_price, days_to_expiration, risk_free_rate,
                   dividend_rate, option_type, current_price, price_is_np,
                   hist_data, returns, sigma, window, bsArgs, ret,
                   stock_chart, exc>>

\* Lines 89-91: any exception of the try block becomes the message.
HandleException ==
    /\ pc = "L89"
    /\ output' = [kind |-> "error", message |-> exc, option_price |-> NoVal,
                  current_price |-> NoVal, volatility |-> NoVal,
                  chart |-> NoChart]
    /\ pc' = "done"
    /\ UNCHANGED <<strike_price, days_to_expiration, risk_free_rate,
                   dividend_rate, option_type, current_price, price_is_np,
                   hist_data, returns, sigma, window, bsArgs, ret,
                   stock_chart, exc>>

\* The output is handed to Gradio and the call is over: nothing of it is
\* kept for the next request.
Finish ==
    /\ pc = "done"
    /\ pc' = "idle"
    /\ strike_price' = NoVal
    /\ days_to_expiration' = 0
    /\ risk_free_rate' = NoVal
    /\ dividend_rate' = NoVal
    /\ option_type' = ""
    /\ window' = 0
    /\ bsArgs' = NoArgs
    /\ ret' = NoRet
    /\ stock_chart' = NoChart
    /\ exc' = "none"
    /\ output' = NoOutput
    /\ UNCHANGED <<current_price, price_is_np, hist_data, returns, sigma>>

Next ==
    \/ Request
    \/ GetCurrentPrice
    \/ EstimateVolatility
    \/ PriceOption
    \/ PlotStockData
    \/ FormatResult
    \/ HandleException
    \/ Finish

Spec == Init /\ [][Next]_vars

\* ------------------------------------------------------------------------
\* Properties
\* ------------------------------------------------------------------------

\* The Close series holds strictly positive prices only.
AllPositive(close) == \A i \in 1 .. Len(close) : close[i] > 0

\* A finite float greater than 0.
Positive(x) == x.k = "fin" /\ x.v > 0

\* A finite float that is 0 or less, or minus infinity.
NonPositive(x) == (x.k = "fin" /\ x.v <= 0) \/ x = NInf

\* black_scholes has been called in this request.
Called == bsArgs # NoArgs

\* C1: estimation of a series of fewer than 2 observations fails with an
\* error; it never hands a volatility (line 54 is reached with a sigma) on.
C1_ShortSeriesRejected == pc = "L54" => Len(hist_data) >= 2

\* C2: for a series of at least 2 strictly positive prices the volatility
\* is a finite number that is not negative, never NaN.
C2_VolatilityFinite ==
    (pc = "L54" /\ Len(hist_data) >= 2 /\ AllPositive(hist_data))
        => (sigma.k = "fin" /\ sigma.v >= 0)

\* C3: when black_scholes is called with S, K, T or sigma that is not
\* positive, the call ends in an error and no price is returned.
C3_NonPositiveRejected ==
    (Called /\ (NonPositive(bsArgs.S) \/ NonPositive(bsArgs.K)
                \/ NonPositive(bsArgs.T) \/ NonPositive(bsArgs.sigma)))
        => (exc # "none" /\ ret = NoRet)

\* C4: no volatility is produced from a series that holds a price that is
\* zero or negative: estimation fails for it.
C4_InvalidPriceRejected == pc = "L54" => AllPositive(hist_data)

\* C5: for an option type that is neither call nor put, black_scholes ends
\* with the option-type error and no price, whatever S, K, T, r, q and
\* sigma are.
C5_OptionTypeError ==
    (Called /\ bsArgs.option_type \notin {"call", "put"})
        => (exc = "ValueError: option_type must be 'call' or 'put'"
            /\ ret = NoRet)

\* C6: when a step of the request has raised, app_interface returns the
\* error message alone, with no price, no volatility and no chart; a price
\* is in the output only when no step raised.
C6_NoPriceOnFailure ==
    pc = "done" =>
        /\ exc # "none" =>
              output = [kind |-> "error", message |-> exc,
                        option_price |-> NoVal, current_price |-> NoVal,
                        volatility |-> NoVal, chart |-> NoChart]
        /\ output.kind = "result" <=> exc = "none"
        /\ output.option_price # NoVal => (exc = "none" /\ ret # NoRet)

\* C6: the chart request failed after the price was computed, and the
\* output is the error message.
C6_Witness ==
    /\ pc = "done"
    /\ exc = "Exception: history request failed"
    /\ ret # NoRet
    /\ Positive(ret.option_price)
    /\ output.kind = "error"

ValidTerms ==
    /\ Called
    /\ Positive(bsArgs.S)
    /\ Positive(bsArgs.K)
    /\ Positive(bsArgs.T)
    /\ Positive(bsArgs.sigma)

\* The call and the put of the terms of the last call of black_scholes.
CallOfLast ==
    black_scholes(bsArgs.S, bsArgs.K, bsArgs.T, bsArgs.r, bsArgs.sigma,
                  bsArgs.q, "call", bsArgs.S_np).value

PutOfLast ==
    black_scholes(bsArgs.S, bsArgs.K, bsArgs.T, bsArgs.r, bsArgs.sigma,
                  bsArgs.q, "put", bsArgs.S_np).value

\* S e^(-qT) - K e^(-rT) of the terms of the last call.
ForwardOfLast ==
    FSub(FMul(bsArgs.S, FExp(FMul(FNeg(bsArgs.q), bsArgs.T))),
         FMul(bsArgs.K, FExp(FMul(FNeg(bsArgs.r), bsArgs.T))))

\* C8: put-call parity: for positive S, K, T and sigma and any r and q,
\* the call less the put is S e^(-qT) - K e^(-rT), within two units of the
\* resolution 1/Scale, and the price returned is the call for 'call' and
\* the put for 'put'.
C8_PutCallParity ==
    ValidTerms =>
        /\ CallOfLast.k = "fin"
        /\ PutOfLast.k = "fin"
        /\ ForwardOfLast.k = "fin"
        /\ CallOfLast.v - PutOfLast.v - ForwardOfLast.v \in -2 .. 2
        /\ (ret # NoRet /\ bsArgs.option_type = "call")
              => ret.option_price = CallOfLast
        /\ (ret # NoRet /\ bsArgs.option_type = "put")
              => ret.option_price = PutOfLast

\* C8: a put was priced on positive terms with r # q, and both the call
\* and the put of these terms are worth more than nothing.
C8_Witness ==
    /\ ValidTerms
    /\ pc = "L80"
    /\ bsArgs.option_type = "put"
    /\ bsArgs.r # bsArgs.q
    /\ bsArgs.S # bsArgs.K
    /\ Positive(CallOfLast)
    /\ Positive(PutOfLast)
    /\ ret.option_price = PutOfLast

\* The log returns of consecutive closes, oldest first.
ConsecutiveLogReturns(close) ==
    [i \in 1 .. Len(close) - 1 |-> FLog(FDiv(Num(close[i + 1]), Num(close[i])))]

\* C10: for a series of n strictly positive prices the values that enter
\* the standard deviation are the n - 1 log returns ln(p[i+1] / p[i]) of
\* consecutive closes, oldest first, and nothing else: the first close has
\* no return of its own.
C10_LogReturns ==
    (pc = "L54" /\ AllPositive(hist_data)) =>
        /\ Len(SkipNaN(returns)) = Len(hist_data) - 1
        /\ SkipNaN(returns) = ConsecutiveLogReturns(hist_data)
        /\ IsNaN(returns[1])
        /\ sigma = FMul(NanStd(ConsecutiveLogReturns(hist_data)),
                        FSqrt(Num(252)))

\* C10: three positive closes that rise and then fall were estimated.
C10_Witness ==
    /\ pc = "L54"
    /\ Len(hist_data) = 3
    /\ AllPositive(hist_data)
    /\ hist_data[1] < hist_data[2]
    /\ hist_data[3] < hist_data[2]
    /\ Positive(sigma)

====
